---- MODULE Spec2Model ----
(***************************************************************************)
(* Model of labeling_tool.py: the session loop of __main__ (prefetch,      *)
(* question, teardown, append), question_loop, stop_labeling, run_freeview *)
(* and the resume filter that reads the results file back.                 *)
(*                                                                         *)
(* Text (console input, csv lines, identifiers) is a sequence of           *)
(* one-character strings, so that formatting a record, splitting a line    *)
(* and reading a column back are computed and not assumed.                 *)
(***************************************************************************)
EXTENDS Integers, Sequences, FiniteSets, TLC

\* ------------------------------------------------------------------ bounds

\* Number of times the program is started over the same worklist and store.
MaxRuns == 2

\* Longest comment the operator types in the question sequencer runs.
MaxCommentLen == 2

\* ------------------------------------------------------------------- text

Digits == {"0", "1", "2", "3", "4", "5", "6", "7", "8", "9"}

\* The literal stop command compared against in every prompt.
StopCmd == <<"s", "t", "o", "p">>

\* The confidence labels assigned by the second prompt.
conf_random == <<"r", "a", "n", "d", "o", "m">>

conf_uncertain == <<"u", "n", "c", "e", "r", "t", "a", "i", "n">>

conf_certain == <<"c", "e", "r", "t", "a", "i", "n">>

\* fail = 'None' of the fourth prompt.
fail_None == <<"N", "o", "n", "e">>

\* --method1 / --method2 of the command line.
met1 == <<"A">>

met2 == <<"B">>

\* --user of the command line (the labeler).
user == <<"u">>

\* str(time.time() - labeling_start): a float printed by the f-string.
label_time == <<"3", ".", "5">>

\* Values of a local that has not been assigned yet.
Unset == <<"?">>

\* All sequences over S of length at most n.
RECURSIVE StringsUpTo(_, _)
StringsUpTo(S, n) ==
    IF n = 0 THEN {<<>>}
    ELSE LET shorter == StringsUpTo(S, n - 1)
         IN  shorter \cup {Append(s, c) : s \in shorter, c \in S}

\* replace_comma with a count of one: only the first delimiter is escaped.
RECURSIVE replace_first_comma(_)
replace_first_comma(s) ==
    IF s = <<>> THEN <<>>
    ELSE IF Head(s) = "," THEN <<";">> \o Tail(s)
    ELSE <<Head(s)>> \o replace_first_comma(Tail(s))

\* str.replace(',', ';') of the comment.
RECURSIVE replace_comma(_)
replace_comma(s) ==
    IF s = <<>> THEN <<>>
    ELSE <<IF Head(s) = "," THEN ";" ELSE Head(s)>> \o replace_comma(Tail(s))

\* The f-string of the record line: the fields joined by commas.
RECURSIVE JoinComma(_)
JoinComma(fields) ==
    IF fields = <<>> THEN <<>>
    ELSE IF Len(fields) = 1 THEN fields[1]
    ELSE fields[1] \o <<",">> \o JoinComma(Tail(fields))

\* A line split on the delimiter, as a csv reader does for unquoted text.
RECURSIVE SplitFrom(_, _, _)
SplitFrom(line, k, cur) ==
    IF k > Len(line) THEN <<cur>>
    ELSE IF line[k] = "," THEN <<cur>> \o SplitFrom(line, k + 1, <<>>)
    ELSE SplitFrom(line, k + 1, Append(cur, line[k]))

SplitComma(line) == SplitFrom(line, 1, <<>>)

\* int(answer) for a one-digit answer, and the f-string of that integer.
DigitValue == [c \in {"0", "1", "2", "3"} |->
                 CASE c = "0" -> 0 [] c = "1" -> 1 [] c = "2" -> 2 [] c = "3" -> 3]

int(s) == DigitValue[s[1]]

IntText(n) == <<CHOOSE c \in DOMAIN DigitValue : DigitValue[c] = n>>

\* ------------------------------------------------------- tables and files

\* Subject identifiers (column ID of the input table) a worklist draws from.
IDs == {<<"1">>, <<"2">>, <<"a">>}

\* Input tables: every ordering of distinct identifiers, the empty table
\* included.  A table is given by its ID column in file order.
Worklists ==
    {w \in UNION {[1..n -> IDs] : n \in 0..Cardinality(IDs)} :
        \A x, y \in DOMAIN w : x # y => w[x] # w[y]}

\* Column num_differences of the row at file position n.
NumDifferences(n) == <<CASE n = 1 -> "5" [] n = 2 -> "6" [] OTHER -> "7">>

\* A column holds integers when every cell is a digit string, and text
\* otherwise: pandas.read_csv infers one type for the whole column.
IsNumeric(s) == s # <<>> /\ \A x \in DOMAIN s : s[x] \in Digits

TypedColumn(col) ==
    LET numeric == \A x \in DOMAIN col : IsNumeric(col[x])
    IN  [x \in DOMAIN col |->
            [t |-> IF numeric THEN "int" ELSE "str", v |-> col[x]]]

\* pd.read_csv(args.input_file, index_col='subject_id'): one row per line,
\* keyed by file position, with the typed ID and the difference count.
read_input(w) ==
    LET ids == TypedColumn(w)
    IN  [n \in DOMAIN w |->
            [subject_id |-> n, ID |-> ids[n], num_differences |-> NumDifferences(n)]]

\* pd.read_csv(results_file, header=None).iloc[:,0].tolist()
already_labeled_subjs_of(lines) ==
    TypedColumn([n \in DOMAIN lines |-> SplitComma(lines[n])[1]])

\* Series.isin: membership by value, and an integer never equals a string.
isin(x, values) == \E n \in DOMAIN values : values[n] = x

\* diff_areas[~diff_areas['ID'].isin(already_labeled_subjs)]
remove_labeled(rows, labeled) ==
    SelectSeq(rows, LAMBDA r : ~isin(r.ID, labeled))

\* The line written for one subject.
record_line(r, ms, b, c, d, f, cm) ==
    JoinComma(<<r.ID.v, ms[1], ms[2], b, c, IntText(d), f, cm, user,
                label_time, r.num_differences>>)

\* A results file left by earlier labeling of the identifiers ids, in order.
earlier_line(id) ==
    JoinComma(<<id, met1, met2, met1, conf_certain, <<"1">>, fail_None, <<>>,
                user, label_time, <<"5">>>>)

EarlierStores ==
    {[n \in DOMAIN ids |-> earlier_line(ids[n])] :
        ids \in {<<>>, <<<<"1">>>>, <<<<"a">>>>, <<<<"1">>, <<"a">>>>,
                 <<<<"1">>, <<"2">>>>}}

\* ------------------------------------------------------------ configuration

\* The columns the program reads from the input table: the index column and
\* ID when loading (lines 330, 334), the others inside the session loop
\* (lines 360, 369, 370, 373).
LoadColumns == {"subject_id", "ID"}

LoopColumns == {"num_differences", "image", "x1", "met1"}

\* A configuration: whether a labeler name is known (--user or $USER), where
\* the viewer path comes from (--fs, $FREESURFER_HOME, or neither), and the
\* column missing from the input table, if any.
Configs ==
    [user : BOOLEAN, fs : {"env", "flag", "unset"},
     missing : {"none"} \cup LoadColumns \cup LoopColumns]

\* Labeler known, FREESURFER_HOME set, every column present.
GoodConfig == [user |-> TRUE, fs |-> "env", missing |-> "none"]

\* --------------------------------------------------------------- variables

VARIABLES
    W,                   \* the input table (ID column, file order)
    store,               \* lines of the results file
    fileExists,          \* os.path.isfile(args.result)
    config,              \* the command line, the environment, the table's columns
    run,                 \* number of the current program run
    pc,                  \* position of the main program
    exit_status,         \* -1 while running, else the process exit status
    diff_areas,          \* rows left after the resume filter
    k,                   \* position of the zip iterator of the session loop
    sessions,            \* viewer processes launched in this run, by uid
    p, p_next,           \* uid of the current / prefetched process, 0 = None
    method_idx,          \* the shared index list that random.shuffle permutes
    methods, methods_next,
    prompt,              \* which of the five question loops is running
    answer,              \* the last console input
    best, confidence, difference_strength, fail, comment,
    R0,                  \* the results file before the first run
    R,                   \* the results file as it was when the run started
    storeAtQ,            \* the results file when question_loop was entered
    exitCause,           \* "stop" or "interrupt" once stop_labeling has run
    given                \* the accepted answers of the running question_loop

fileVars == <<W, store, fileExists, config>>

loopVars == <<diff_areas, k>>

viewVars == <<sessions, p, p_next, method_idx, methods, methods_next>>

askVars == <<prompt, answer, best, confidence, difference_strength, fail,
             comment, given>>

histVars == <<R0, R, storeAtQ, exitCause>>

vars == <<fileVars, run, pc, exit_status, loopVars, viewVars, askVars, histVars>>

\* ------------------------------------------------------------ construction

\* The locals of question_loop before it has run.
AskReset ==
    /\ prompt = 0
    /\ answer = Unset
    /\ best = <<>>
    /\ confidence = <<>>
    /\ difference_strength = -1
    /\ fail = <<>>
    /\ comment = Unset
    /\ given = <<>>

\* A program about to be started on table w with results file r0.
InitWith(tables, stores, configs) ==
    /\ W \in tables
    /\ store \in stores
    /\ config \in configs
    /\ fileExists \in (IF store = <<>> THEN {FALSE, TRUE} ELSE {TRUE})
    /\ run = 1
    /\ pc = "start"
    /\ exit_status = -1
    /\ diff_areas = <<>>
    /\ k = 0
    /\ sessions = <<>>
    /\ p = 0
    /\ p_next = 0
    /\ method_idx = <<1, 2>>
    /\ methods = <<>>
    /\ methods_next = <<>>
    /\ AskReset
    /\ R0 = store
    /\ R = store
    /\ storeAtQ = store
    /\ exitCause = "none"

Init == InitWith(Worklists, EarlierStores, {GoodConfig})

\* ------------------------------------------------------------ main: set-up

\* Lines 313-353.  os.environ["FREESURFER_HOME"] raises when --fs is absent
\* and the variable is not set; a missing labeler name is reported and ends
\* the program with status 1; read_csv raises on a missing index column and
\* diff_areas['ID'] on a missing ID column.  Then the table is loaded, and
\* when the results file exists its first column is read and the rows whose
\* ID is in it are dropped.  read_csv raises on a file without any line.  An
\* uncaught exception ends the run with a traceback.
StartRun ==
    /\ pc = "start"
    /\ IF config.fs = "unset"
       THEN /\ pc' = "crashed"
            /\ exit_status' = 1
            /\ UNCHANGED diff_areas
       ELSE IF ~config.user
       THEN /\ pc' = "exited"
            /\ exit_status' = 1
            /\ UNCHANGED diff_areas
       ELSE IF config.missing \in LoadColumns \/ (fileExists /\ store = <<>>)
       THEN /\ pc' = "crashed"
            /\ exit_status' = 1
            /\ UNCHANGED diff_areas
       ELSE /\ pc' = "loop"
            /\ exit_status' = -1
            /\ diff_areas' =
                 IF fileExists
                 THEN remove_labeled(read_input(W), already_labeled_subjs_of(store))
                 ELSE read_input(W)
    /\ k' = 0
    /\ R' = store
    /\ UNCHANGED <<fileVars, run, viewVars, askVars, R0, storeAtQ, exitCause>>

\* ------------------------------------------------------- main: session loop

\* zip(diff_areas[:-1].iterrows(), diff_areas[1:].iterrows()): the pairs of
\* adjacent rows, so one pair fewer than rows.
pairs(rows) ==
    [n \in 1..(IF Len(rows) = 0 THEN 0 ELSE Len(rows) - 1) |->
        <<rows[n], rows[n + 1]>>]

row == pairs(diff_areas)[k][1]

row_next == pairs(diff_areas)[k][2]

\* random.shuffle(method_idx): any order of the two indices.
Shuffles == {<<1, 2>>, <<2, 1>>}

method_names == <<met1, met2>>

\* [method_names[i] for i in method_idx]
methods_of(idx) == <<method_names[idx[1]], method_names[idx[2]]>>

\* [segmentations[i] for i in method_idx]: the file of a row's method column
\* is named by the row and the method.
segmentations_of(r, idx) ==
    <<<<r.subject_id, method_names[idx[1]]>>, <<r.subject_id, method_names[idx[2]]>>>>

\* run_freeview: a new viewer process showing seg1 and seg2 of the subject;
\* its uid is its position in sessions.
run_freeview(r, segs) ==
    Append(sessions, [subject_id |-> r.subject_id, ID |-> r.ID.v,
                      seg1 |-> segs[1], seg2 |-> segs[2], signalled |-> FALSE])

\* Line 358: the next pair of the iterator, or line 443 when it is exhausted.
\* Line 360 reads row['num_differences'] first, a KeyError without the column.
LoopNext ==
    /\ pc = "loop"
    /\ IF k + 1 <= Len(pairs(diff_areas)) /\ config.missing = "num_differences"
       THEN /\ k' = k
            /\ pc' = "crashed"
            /\ exit_status' = 1
       ELSE IF k + 1 <= Len(pairs(diff_areas))
       THEN /\ k' = k + 1
            /\ pc' = IF p_next = 0 THEN "prime" ELSE "prefetch"
            /\ exit_status' = -1
       ELSE /\ k' = k
            /\ pc' = "done"
            /\ exit_status' = 0
    /\ UNCHANGED <<fileVars, run, diff_areas, viewVars, askVars, histVars>>

\* Lines 365-375: the first window.  row['image'], row['x1'] and
\* row[args.met1] raise without their column, and freesurfer_path is bound
\* only when --fs is absent (line 313 has no else), so with --fs the call of
\* line 375 raises NameError while its arguments are evaluated: in each case
\* the run ends before the viewer is started.
PrimeCurrent ==
    /\ pc = "prime"
    /\ IF config.missing \in LoopColumns \/ config.fs = "flag"
       THEN /\ pc' = "crashed"
            /\ exit_status' = 1
            /\ UNCHANGED <<sessions, p, method_idx, methods>>
       ELSE /\ \E idx \in Shuffles :
                 /\ method_idx' = idx
                 /\ methods' = methods_of(idx)
                 /\ sessions' = run_freeview(row, segmentations_of(row, idx))
            /\ p' = Len(sessions')
            /\ pc' = "prime_next"
            /\ exit_status' = -1
    /\ UNCHANGED <<fileVars, run, loopVars, p_next, methods_next,
                   askVars, histVars>>

\* The entry of question_loop (lines 164-171) after the window is shown.
EnterQuestionLoop ==
    /\ prompt' = 1
    /\ answer' = Unset
    /\ best' = <<>>
    /\ confidence' = <<>>
    /\ fail' = <<>>
    /\ given' = <<>>
    /\ storeAtQ' = store
    /\ UNCHANGED <<difference_strength, comment>>

\* Lines 378-387, then 404-414: the next window, then the questions.
PrimeNext ==
    /\ pc = "prime_next"
    /\ \E idx \in Shuffles :
         /\ method_idx' = idx
         /\ methods_next' = methods_of(idx)
         /\ sessions' = run_freeview(row_next, segmentations_of(row_next, idx))
    /\ p_next' = Len(sessions')
    /\ pc' = "ask"
    /\ EnterQuestionLoop
    /\ UNCHANGED <<fileVars, run, exit_status, loopVars, p, methods, R0, R,
                   exitCause>>

\* Prefetch that hands the window over and launches no next one.
Prefetch_lazy ==
    /\ pc = "prefetch"
    /\ p' = p_next
    /\ methods' = methods_next
    /\ pc' = "ask"
    /\ EnterQuestionLoop
    /\ UNCHANGED <<fileVars, run, exit_status, loopVars, sessions, p_next,
                   method_idx, methods_next, R0, R, exitCause>>

\* Prefetch that keeps the old current process (line 389 left out).
Prefetch_stale ==
    /\ pc = "prefetch"
    /\ p' = p
    /\ methods' = methods_next
    /\ \E idx \in Shuffles :
         /\ method_idx' = idx
         /\ methods_next' = methods_of(idx)
         /\ sessions' = run_freeview(row_next, segmentations_of(row_next, idx))
    /\ p_next' = Len(sessions')
    /\ pc' = "ask"
    /\ EnterQuestionLoop
    /\ UNCHANGED <<fileVars, run, exit_status, loopVars, R0, R, exitCause>>

\* Lines 389-401, then 404-414: the prefetched window becomes the current
\* one, the next window is launched, then the questions.
Prefetch ==
    /\ pc = "prefetch"
    /\ p' = p_next
    /\ methods' = methods_next
    /\ \E idx \in Shuffles :
         /\ method_idx' = idx
         /\ methods_next' = methods_of(idx)
         /\ sessions' = run_freeview(row_next, segmentations_of(row_next, idx))
    /\ p_next' = Len(sessions')
    /\ pc' = "ask"
    /\ EnterQuestionLoop
    /\ UNCHANGED <<fileVars, run, exit_status, loopVars, R0, R, exitCause>>

\* ----------------------------------------------------------- stop_labeling

\* stop_labeling leaving with a failure status.
stop_labeling_exit1(processes, cause) ==
    /\ sessions' = [u \in DOMAIN sessions |->
                      IF \E n \in DOMAIN processes : processes[n] = u
                      THEN [sessions[u] EXCEPT !.signalled = TRUE]
                      ELSE sessions[u]]
    /\ pc' = "exited"
    /\ exit_status' = 1
    /\ exitCause' = cause

\* Lines 78-88: SIGTERM to every process of the list, then sys.exit(0).
stop_labeling(processes, cause) ==
    /\ sessions' = [u \in DOMAIN sessions |->
                      IF \E n \in DOMAIN processes : processes[n] = u
                      THEN [sessions[u] EXCEPT !.signalled = TRUE]
                      ELSE sessions[u]]
    /\ pc' = "exited"
    /\ exit_status' = 0
    /\ exitCause' = cause

\* ----------------------------------------------------------- question_loop

\* valid_answers with the list of the second loop copied into the first.
valid_answers_copied(q) ==
    CASE q = 1 -> {<<"1">>, <<"2">>, <<"3">>}
      [] q = 2 -> {<<"1">>, <<"2">>, <<"3">>}
      [] q = 3 -> {<<"0">>, <<"1">>, <<"2">>, <<"3">>}
      [] q = 4 -> {<<"0">>, <<"1">>, <<"2">>, <<"3">>}

\* The answers each of the first four loops accepts (lines 183, 210, 241, 265).
valid_answers(q) ==
    CASE q = 1 -> {<<"1">>, <<"2">>}
      [] q = 2 -> {<<"1">>, <<"2">>, <<"3">>}
      [] q = 3 -> {<<"0">>, <<"1">>, <<"2">>, <<"3">>}
      [] q = 4 -> {<<"0">>, <<"1">>, <<"2">>, <<"3">>}

\* best_of keeping the typed answer instead of the method it names.
best_of_raw(a, ms) == a

\* Lines 186-189.
best_of(a, ms) == IF a = <<"1">> THEN ms[1] ELSE ms[2]

\* Lines 213-218.
confidence_of(a) ==
    CASE a = <<"1">> -> conf_random
      [] a = <<"2">> -> conf_uncertain
      [] a = <<"3">> -> conf_certain

\* fail_of with the two slots exchanged.
fail_of_swapped(a, ms) ==
    CASE a = <<"0">> -> fail_None
      [] a = <<"1">> -> ms[2]
      [] a = <<"2">> -> ms[1]
      [] a = <<"3">> -> ms[1] \o <<"+">> \o ms[2]

\* Lines 268-275.
fail_of(a, ms) ==
    CASE a = <<"0">> -> fail_None
      [] a = <<"1">> -> ms[1]
      [] a = <<"2">> -> ms[2]
      [] a = <<"3">> -> ms[1] \o <<"+">> \o ms[2]

\* An accepted answer of loop q: the local it assigns, and the next loop.
accept(q, a, ms) ==
    /\ best' = IF q = 1 THEN best_of(a, ms) ELSE best
    /\ confidence' = IF q = 2 THEN confidence_of(a) ELSE confidence
    /\ difference_strength' = IF q = 3 THEN int(a) ELSE difference_strength
    /\ fail' = IF q = 4 THEN fail_of(a, ms) ELSE fail
    /\ comment' = IF q = 5 THEN a ELSE comment
    /\ given' = Append(given, a)
    /\ prompt' = IF q = 5 THEN q ELSE q + 1
    /\ pc' = IF q = 5 THEN "sanitize" ELSE "ask"

\* One input() of question_loop(processes, ms) with the operator typing a:
\* the stop command, an accepted answer, or an invalid one that is reported
\* and asked again.
question_loop(processes, ms, a) ==
    /\ answer' = a
    /\ IF a = StopCmd
       THEN /\ stop_labeling(processes, "stop")
            /\ UNCHANGED <<prompt, best, confidence, difference_strength, fail,
                           comment, given>>
       ELSE /\ IF prompt = 5 \/ a \in valid_answers(prompt)
               THEN accept(prompt, a, ms)
               ELSE UNCHANGED <<prompt, best, confidence, difference_strength,
                                fail, comment, given, pc>>
            /\ UNCHANGED <<sessions, exit_status, exitCause>>

\* Ask handing only the current process to question_loop.
Ask_current_only(inputs) ==
    /\ pc = "ask"
    /\ \E a \in inputs : question_loop(<<p>>, methods, a)
    /\ UNCHANGED <<fileVars, run, loopVars, p, p_next, method_idx, methods,
                   methods_next, R0, R, storeAtQ>>

\* Line 414 while an input() is pending: the operator types one of inputs.
Ask(inputs) ==
    /\ pc = "ask"
    /\ \E a \in inputs : question_loop(<<p, p_next>>, methods, a)
    /\ UNCHANGED <<fileVars, run, loopVars, p, p_next, method_idx, methods,
                   methods_next, R0, R, storeAtQ>>

\* Ctrl-C without the except clause: the interpreter ends with a traceback.
KeyboardInterrupt_uncaught ==
    /\ pc = "ask"
    /\ pc' = "crashed"
    /\ exit_status' = 1
    /\ exitCause' = "interrupt"
    /\ UNCHANGED <<fileVars, run, loopVars, viewVars, askVars, R0, R, storeAtQ>>

\* except KeyboardInterrupt (lines 194, 223, 247, 280, 296): Ctrl-C while an
\* input() is pending.
KeyboardInterrupt ==
    /\ pc = "ask"
    /\ stop_labeling(<<p, p_next>>, "interrupt")
    /\ UNCHANGED <<fileVars, run, loopVars, p, p_next, method_idx, methods,
                   methods_next, askVars, R0, R, storeAtQ>>

\* --------------------------------------------------- main: after the answers

\* Line 417.
Sanitize ==
    /\ pc = "sanitize"
    /\ comment' = replace_comma(comment)
    /\ pc' = "terminate"
    /\ UNCHANGED <<fileVars, run, exit_status, loopVars, viewVars, prompt,
                   answer, best, confidence, difference_strength, fail, given,
                   histVars>>

\* Terminate sending no signal.
Terminate_skipped ==
    /\ pc = "terminate"
    /\ pc' = "append"
    /\ UNCHANGED <<fileVars, run, exit_status, loopVars, viewVars, askVars,
                   histVars>>

\* Terminate signalling the prefetched process instead of the current one.
Terminate_prefetched ==
    /\ pc = "terminate"
    /\ sessions' = [sessions EXCEPT ![p_next].signalled = TRUE]
    /\ pc' = "append"
    /\ UNCHANGED <<fileVars, run, exit_status, loopVars, p, p_next, method_idx,
                   methods, methods_next, askVars, histVars>>

\* Lines 423-431: SIGTERM to the current process.
Terminate ==
    /\ pc = "terminate"
    /\ sessions' = [sessions EXCEPT ![p].signalled = TRUE]
    /\ pc' = "append"
    /\ UNCHANGED <<fileVars, run, exit_status, loopVars, p, p_next, method_idx,
                   methods, methods_next, askVars, histVars>>

\* AppendRecord taking the slot names from the shared index list as it is
\* when the record is written.
AppendRecord_shared_idx ==
    /\ pc = "append"
    /\ store' = Append(store, record_line(row, methods_of(method_idx), best,
                                          confidence, difference_strength,
                                          fail, comment))
    /\ fileExists' = TRUE
    /\ pc' = "loop"
    /\ UNCHANGED <<W, config, run, exit_status, loopVars, viewVars, askVars,
                   histVars>>

\* Lines 437-438: the record of the subject, appended in one write.
AppendRecord ==
    /\ pc = "append"
    /\ store' = Append(store, record_line(row, methods, best, confidence,
                                          difference_strength, fail, comment))
    /\ fileExists' = TRUE
    /\ pc' = "loop"
    /\ UNCHANGED <<W, config, run, exit_status, loopVars, viewVars, askVars,
                   histVars>>

\* -------------------------------------------------------- runs of the program

Running == pc \notin {"start", "done", "exited", "crashed"}

\* The process is killed, or the machine goes down, between two steps: its
\* memory is gone, the viewer processes and the results file stay.
Crash ==
    /\ Running
    /\ pc' = "crashed"
    /\ exit_status' = 1
    /\ diff_areas' = <<>>
    /\ k' = 0
    /\ p' = 0
    /\ p_next' = 0
    /\ method_idx' = <<1, 2>>
    /\ methods' = <<>>
    /\ methods_next' = <<>>
    /\ prompt' = 0
    /\ answer' = Unset
    /\ best' = <<>>
    /\ confidence' = <<>>
    /\ difference_strength' = -1
    /\ fail' = <<>>
    /\ comment' = Unset
    /\ given' = <<>>
    /\ UNCHANGED <<fileVars, run, sessions, histVars>>

\* The operator starts the program again on the same table and results file.
Restart ==
    /\ ~Running
    /\ pc # "start"
    /\ run < MaxRuns
    /\ run' = run + 1
    /\ pc' = "start"
    /\ exit_status' = -1
    /\ diff_areas' = <<>>
    /\ k' = 0
    /\ sessions' = <<>>
    /\ p' = 0
    /\ p_next' = 0
    /\ method_idx' = <<1, 2>>
    /\ methods' = <<>>
    /\ methods_next' = <<>>
    /\ prompt' = 0
    /\ answer' = Unset
    /\ best' = <<>>
    /\ confidence' = <<>>
    /\ difference_strength' = -1
    /\ fail' = <<>>
    /\ comment' = Unset
    /\ given' = <<>>
    /\ R' = store
    /\ storeAtQ' = store
    /\ exitCause' = "none"
    /\ UNCHANGED <<fileVars, R0>>

\* ----------------------------------------------------------- specifications

\* What the operator types in the runs of the whole program: a text every
\* one of the five loops accepts, and the stop command.  SpecQuestions below
\* covers the other inputs.
SessionInputs == {<<"1">>, StopCmd}

Next ==
    \/ StartRun
    \/ LoopNext
    \/ PrimeCurrent
    \/ PrimeNext
    \/ Prefetch
    \/ Ask(SessionInputs)
    \/ KeyboardInterrupt
    \/ Sanitize
    \/ Terminate
    \/ AppendRecord
    \/ Crash
    \/ Restart

Spec == Init /\ [][Next]_vars

\* The question sequencer with everything the operator may type: every
\* digit answer, one digit no loop accepts, every text over a letter and the
\* delimiter up to MaxCommentLen (the empty line included), the stop command.
CommentAlphabet == {"a", ","}

SequencerInputs ==
    {<<"0">>, <<"1">>, <<"2">>, <<"3">>, <<"4">>, StopCmd}
        \cup StringsUpTo(CommentAlphabet, MaxCommentLen)

\* One run over a table of two subjects and no results file: one pass of the
\* session loop, hence one question sequence.
InitQuestions == InitWith({<<<<"1">>, <<"2">>>>}, {<<>>}, {GoodConfig})

NextQuestions ==
    \/ StartRun
    \/ LoopNext
    \/ PrimeCurrent
    \/ PrimeNext
    \/ Ask(SequencerInputs)
    \/ KeyboardInterrupt
    \/ Sanitize
    \/ Terminate
    \/ AppendRecord

SpecQuestions == InitQuestions /\ [][NextQuestions]_vars

\* One run under every configuration, over every table, with no results
\* file or one holding subject 1.
InitConfig ==
    InitWith(Worklists, {<<>>, <<earlier_line(<<"1">>)>>}, Configs)

NextConfig ==
    \/ StartRun
    \/ LoopNext
    \/ PrimeCurrent
    \/ PrimeNext
    \/ Prefetch
    \/ Ask(SessionInputs)
    \/ KeyboardInterrupt
    \/ Sanitize
    \/ Terminate
    \/ AppendRecord

SpecConfig == InitConfig /\ [][NextConfig]_vars

\* ------------------------------------------------------------------ claims

\* The subject identifier a results line starts with, as text.
LineID(line) == SplitComma(line)[1]

\* The identifiers in the first column of a results file, as text.
FirstColumn(lines) == {LineID(lines[n]) : n \in DOMAIN lines}

\* The lines appended to the results file since the run started.
AppendedThisRun == SubSeq(store, Len(R) + 1, Len(store))

\* C1: a run that reaches normal completion has appended exactly one record
\* for each subject of the worklist whose identifier is not in the results
\* file the run started with, in worklist order, and no other record.
C1_CompletionLabelsEveryUnlabeled ==
    pc = "done" =>
        [n \in DOMAIN AppendedThisRun |-> LineID(AppendedThisRun[n])]
            = SelectSeq(W, LAMBDA id : id \notin FirstColumn(R))

\* C2: a run never launches a viewer for, asks about, or appends a record
\* for a subject whose identifier is in the first column of the results file
\* the run started with.
C2_NeverReprocessesLabeled ==
    /\ \A u \in DOMAIN sessions : sessions[u].ID \notin FirstColumn(R)
    /\ \A n \in DOMAIN AppendedThisRun :
           LineID(AppendedThisRun[n]) \notin FirstColumn(R)
    /\ pc = "ask" => row.ID.v \notin FirstColumn(R)

\* C4: starting from an empty or absent results file, whatever the runs were
\* (completed, stopped, interrupted, crashed), no two lines of the results
\* file start with the same subject identifier.
C4_AtMostOneRecordPerSubject ==
    R0 = <<>> =>
        \A m, n \in DOMAIN store : m # n => LineID(store[m]) # LineID(store[n])

\* C3: a record is appended only for a subject whose five answers are in,
\* only after SIGTERM went to that subject's own viewer, one line at a time,
\* and when the loop moves on exactly one line has been added since the
\* questions began.
C3_OneRecordAfterOwnTeardown ==
    [][/\ store' # store =>
            /\ Len(store') = Len(store) + 1
            /\ SubSeq(store', 1, Len(store)) = store
            /\ store = storeAtQ
            /\ Len(given) = 5
            /\ sessions[p].signalled
            /\ sessions[p].subject_id = row.subject_id
            /\ LineID(store'[Len(store')]) = sessions[p].ID
       /\ (pc = "append" /\ pc' = "loop") => store' # store
       /\ (pc # "append" /\ pc' = "loop") => pc = "start"]_vars

C3_Witness ==
    /\ pc = "loop"
    /\ k = 2
    /\ Len(store) = Len(storeAtQ) + 1
    /\ sessions[p].signalled
    /\ LineID(store[Len(store)]) = sessions[p].ID

\* C5: once the stop command has been typed at a prompt the program has
\* ended with status 0 and the results file is what it was when the questions
\* for that subject began.
C5_StopWritesNothing ==
    exitCause = "stop" =>
        /\ pc = "exited"
        /\ exit_status = 0
        /\ answer = StopCmd
        /\ prompt \in 1..5
        /\ store = storeAtQ
        /\ Len(given) = prompt - 1

\* Stop at the last prompt of the second subject of a run, one record written.
C5_Witness ==
    /\ exitCause = "stop"
    /\ prompt = 5
    /\ k = 2
    /\ Len(store) = Len(R) + 1

\* C6: a step that leaves a prompt through stop_labeling, by the stop command
\* or by an interrupt, has one outcome: the current and the prefetched viewer
\* are signalled and no other, nothing is written, the exit status is 0.
C6_InterruptActsAsStop ==
    [][(pc = "ask" /\ exitCause' # "none") =>
          /\ pc' = "exited"
          /\ exit_status' = 0
          /\ store' = store
          /\ DOMAIN sessions' = DOMAIN sessions
          /\ \A u \in DOMAIN sessions :
                sessions'[u] = [sessions[u] EXCEPT
                    !.signalled = sessions[u].signalled \/ u \in {p, p_next}]]_vars

\* An interrupt at the fourth prompt of the second subject of a run.
C6_Witness ==
    /\ exitCause = "interrupt"
    /\ pc = "exited"
    /\ prompt = 4
    /\ k = 2
    /\ sessions[p].signalled
    /\ sessions[p_next].signalled
    /\ Len(store) = Len(R) + 1

\* The answer sets of the four enumerated prompts, as the specification
\* lists them.
Enumerated(q) ==
    CASE q = 1 -> {<<"1">>, <<"2">>}
      [] q = 2 -> {<<"1">>, <<"2">>, <<"3">>}
      [] q \in {3, 4} -> {<<"0">>, <<"1">>, <<"2">>, <<"3">>}

\* C7: an input at prompts 1 to 4 that is neither enumerated nor the stop
\* command leaves the prompt and every collected answer as they were; an
\* input never moves the sequencer back or by more than one prompt.
C7_InvalidInputStays ==
    [][pc = "ask" =>
          /\ pc' = "ask" => prompt' \in {prompt, prompt + 1}
          /\ pc' = "sanitize" => prompt = 5
          /\ (prompt <= 4 /\ answer' # answer
                /\ answer' \notin Enumerated(prompt) /\ answer' # StopCmd) =>
                /\ pc' = "ask"
                /\ prompt' = prompt
                /\ <<best, confidence, difference_strength, fail, comment>>'
                     = <<best, confidence, difference_strength, fail, comment>>]_vars

\* An input no list holds, typed at the second prompt: the sequencer is still
\* there and the first answer is kept.
C7_Witness ==
    /\ pc = "ask"
    /\ prompt = 2
    /\ answer = <<"0">>
    /\ best = methods[2]
    /\ confidence = <<>>

\* The tuple the specification documents for the accepted answers g and the
\* slot pair ms.
Documented(g, ms) ==
    [best |-> IF g[1] = <<"1">> THEN ms[1] ELSE ms[2],
     confidence |-> CASE g[2] = <<"1">> -> conf_random
                      [] g[2] = <<"2">> -> conf_uncertain
                      [] g[2] = <<"3">> -> conf_certain,
     difference_strength |-> CASE g[3] = <<"0">> -> 0 [] g[3] = <<"1">> -> 1
                               [] g[3] = <<"2">> -> 2 [] g[3] = <<"3">> -> 3,
     fail |-> CASE g[4] = <<"0">> -> fail_None
                [] g[4] = <<"1">> -> ms[1]
                [] g[4] = <<"2">> -> ms[2]
                [] g[4] = <<"3">> -> ms[1] \o <<"+">> \o ms[2],
     comment |-> g[5]]

\* C8: every accepted answer advances one prompt, the accepted answers are
\* enumerated ones, and the tuple question_loop returns is the documented
\* function of them and of the slot pair, the comment returned as typed.
C8_AnswersMapAsDocumented ==
    /\ pc = "ask" =>
          /\ Len(given) = prompt - 1
          /\ \A q \in 1..Len(given) : given[q] \in Enumerated(q)
    /\ pc = "sanitize" =>
          /\ Len(given) = 5
          /\ \A q \in 1..4 : given[q] \in Enumerated(q)
          /\ given[5] # StopCmd
          /\ [best |-> best, confidence |-> confidence,
              difference_strength |-> difference_strength, fail |-> fail,
              comment |-> comment] = Documented(given, methods)

\* Slot 2 preferred, certain, no difference, both failed, empty comment, with
\* the second method shown in slot 1.
C8_Witness ==
    /\ pc = "sanitize"
    /\ given = <<<<"2">>, <<"3">>, <<"0">>, <<"3">>, <<>>>>
    /\ methods = <<met2, met1>>
    /\ best = met1
    /\ fail = met2 \o <<"+">> \o met1
    /\ comment = <<>>

\* C9: in every record the two slot fields are the two configured method
\* names in one of their two orders, and the chosen-best field is one of the
\* two slot fields of that record.
C9_SlotsArePermutation ==
    \A n \in DOMAIN store :
        LET f == SplitComma(store[n])
        IN  /\ <<f[2], f[3]>> \in {<<met1, met2>>, <<met2, met1>>}
            /\ f[4] \in {f[2], f[3]}

\* A record with the methods exchanged and slot 2 chosen.
C9_Witness ==
    /\ Len(store) = 1
    /\ LET f == SplitComma(store[1])
       IN  f[2] = met2 /\ f[3] = met1 /\ f[4] = met1

\* C10: every written line splits on the delimiter into exactly 11 fields,
\* and its comment field is the typed comment with every delimiter replaced,
\* so it holds none.
C10_CommentKeepsElevenFields ==
    \A n \in DOMAIN store :
        LET f == SplitComma(store[n])
        IN  /\ Len(f) = 11
            /\ \A x \in DOMAIN f[8] : f[8][x] # ","
            /\ (n = Len(store) /\ pc \in {"loop", "done"}) =>
                  /\ Len(f[8]) = Len(given[5])
                  /\ \A x \in DOMAIN f[8] :
                        f[8][x] = IF given[5][x] = "," THEN ";" ELSE given[5][x]

\* A record written for a comment of two delimiters.
C10_Witness ==
    /\ Len(store) = 1
    /\ pc = "loop"
    /\ given[5] = <<",", ",">>
    /\ SplitComma(store[1])[8] = <<";", ";">>

\* A configuration error: no labeler name, no viewer path, or a column the
\* program reads missing from the table.
ConfigError ==
    \/ ~config.user
    \/ config.fs = "unset"
    \/ config.missing # "none"

Ended == pc \in {"done", "exited", "crashed"}

\* C11: with a configuration error present no viewer is launched and no
\* record is appended, and the run, once ended, has ended with a failure,
\* whatever the number of remaining subjects.
C11_ConfigErrorIsFatal ==
    ConfigError =>
        /\ sessions = <<>>
        /\ store = R0
        /\ Ended => exit_status # 0

\* C12: when a run has ended by normal completion every viewer it launched
\* has been sent SIGTERM, the last prefetched one included.
C12_CompletionSignalsEveryViewer ==
    pc = "done" => \A u \in DOMAIN sessions : sessions[u].signalled

\* C13: once the stop command has been typed at a prompt, no viewer launched
\* in the run is left without SIGTERM.
C13_StopSignalsEveryViewer ==
    exitCause = "stop" => \A u \in DOMAIN sessions : sessions[u].signalled

\* Stop at the first prompt of the second subject: three viewers launched.
C13_Witness ==
    /\ exitCause = "stop"
    /\ prompt = 1
    /\ Len(sessions) = 3
    /\ sessions[p].signalled
    /\ sessions[p_next].signalled

\* The viewers of the run that were launched and not yet sent SIGTERM.
Unsignalled == {u \in DOMAIN sessions : ~sessions[u].signalled}

\* C14: at most two viewers of a run are launched and not yet signalled.
C14_AtMostTwoViewers == Cardinality(Unsignalled) <= 2

\* The third viewer launched, the first one already signalled.
C14_Witness ==
    /\ Len(sessions) = 3
    /\ Unsignalled = {2, 3}
    /\ pc = "ask"

\* C15: while a prompt for the k-th remaining subject is pending, a viewer
\* has been launched for that subject and one for its successor in the
\* remaining worklist.
C15_NextLaunchedBeforePrompt ==
    pc = "ask" =>
        /\ k \in 1..(Len(diff_areas) - 1)
        /\ \E u \in DOMAIN sessions :
              sessions[u].subject_id = diff_areas[k].subject_id
        /\ \E u \in DOMAIN sessions :
              sessions[u].subject_id = diff_areas[k + 1].subject_id

\* The first prompt of the second of three remaining subjects.
C15_Witness ==
    /\ pc = "ask"
    /\ prompt = 1
    /\ answer = Unset
    /\ k = 2
    /\ Len(diff_areas) = 3
    /\ sessions[3].subject_id = diff_areas[3].subject_id

\* The last line of the results file, split.
LastRecord == SplitComma(store[Len(store)])

\* A record has just been written by this run.
JustAppended == pc = "loop" /\ k >= 1

\* C16: the two slot names of a record are the methods whose segmentation
\* files the subject's viewer was launched with, in that order, whatever the
\* shared index list has become since.
C16_RecordSlotsAreLaunchSlots ==
    /\ pc \in {"ask", "sanitize", "terminate", "append"} =>
          methods = <<sessions[p].seg1[2], sessions[p].seg2[2]>>
    /\ JustAppended =>
          /\ LastRecord[2] = sessions[p].seg1[2]
          /\ LastRecord[3] = sessions[p].seg2[2]
          /\ sessions[p].seg1[1] = sessions[p].subject_id
          /\ sessions[p].seg2[1] = sessions[p].subject_id

\* A record written after the index list was reshuffled to the other order.
C16_Witness ==
    /\ JustAppended
    /\ methods_of(method_idx) # methods
    /\ LastRecord[2] = sessions[p].seg1[2]
    /\ LastRecord[2] = met2

\* C17: the viewer that is questioned about and terminated was launched for
\* the subject of the loop's current row, and the record written carries that
\* subject's identifier and difference count.
C17_RecordMatchesSession ==
    /\ pc \in {"ask", "sanitize", "terminate", "append"} =>
          sessions[p].subject_id = row.subject_id
    /\ JustAppended =>
          /\ sessions[p].signalled
          /\ LastRecord[1] = sessions[p].ID
          /\ LastRecord[1] = W[sessions[p].subject_id]
          /\ LastRecord[11] = NumDifferences(sessions[p].subject_id)

\* The record of the second subject, whose viewer was the prefetched one.
C17_Witness ==
    /\ JustAppended
    /\ k = 2
    /\ p = 2
    /\ LastRecord[1] = sessions[2].ID
    /\ LastRecord[11] = NumDifferences(sessions[2].subject_id)

====
